---- MODULE Spec2Model ----
(***************************************************************************)
(* A model of the parallel GIF encoder (package gip, src/gif.go) and of    *)
(* its earlier single-stream form (package gifp, src/unnamed/part_000).    *)
(*                                                                         *)
(* Bytes are the integers 0..255, byte slices are sequences.  A writer is  *)
(* a record with a field kind:                                             *)
(*   "sink"   the caller's io.Writer: data received, number of Write calls *)
(*            made on it, and the call (failAt, 0 = none) that fails;      *)
(*   "buffer" a bytes.Buffer;                                              *)
(*   "bufio"  a bufio.Writer of DefaultBufSize bytes over the writer wr;   *)
(*   "block"  a blockWriter over the writer w.                             *)
(* A write returns the record [w, n, err]: the writer afterwards, the      *)
(* bytes it took and the error ("nil" for none).                           *)
(***************************************************************************)
EXTENDS Integers, Sequences, FiniteSets, TLC

\* ------------------------------------------------------------------------
\* Program constants.

\* bufio.NewWriter's buffer size (bufio's defaultBufSize).
DefaultBufSize == 4096

\* The block size of the blockWriter: buf [256]byte holds a length byte and
\* up to 255 data bytes.
BlockMax == 255

\* Encode's size limit, 1<<16.
SizeLimit == 65536

\* compress/lzw: maxCode = 1<<12 - 1.
maxCode == 4095

\* compress/lzw: invalidCode, the savedCode before the first Write.
invalidCode == -1

\* len(palette.WebSafe).
WebSafeLen == 216

Pow2(n) == 2 ^ n

Min(a, b) == IF a < b THEN a ELSE b

\* p[from+1 .. Len(p)], Go's p[from:].
Drop(p, from) == SubSeq(p, from + 1, Len(p))

\* p[1 .. n], Go's p[:n].
Take(p, n) == SubSeq(p, 1, n)

\* ------------------------------------------------------------------------
\* The writers.

NewSink(failAt) == [kind |-> "sink", data |-> <<>>, calls |-> 0, failAt |-> failAt]

NewBuffer == [kind |-> "buffer", data |-> <<>>]

NewBufio(wr) == [kind |-> "bufio", buf |-> <<>>, err |-> "nil", wr |-> wr]

NewBlockWriter(w) == [kind |-> "block", buf |-> <<>>, w |-> w]

\* A writer that never fails and keeps the slices it was handed apart, one
\* per call.
NewLog == [kind |-> "log", writes |-> <<>>]

logWrite(l, p) ==
    [w |-> [l EXCEPT !.writes = Append(@, p)], n |-> Len(p), err |-> "nil"]

\* The sink's Write: the failAt-th call takes nothing and fails.
sinkWrite(s, p) ==
    IF s.calls + 1 = s.failAt
    THEN [w |-> [s EXCEPT !.calls = @ + 1], n |-> 0, err |-> "sink"]
    ELSE [w |-> [s EXCEPT !.calls = @ + 1, !.data = @ \o p], n |-> Len(p), err |-> "nil"]

\* bytes.Buffer.Write never fails.
bufferWrite(b, p) ==
    [w |-> [b EXCEPT !.data = @ \o p], n |-> Len(p), err |-> "nil"]

RECURSIVE Write(_, _)
RECURSIVE bufioWriteLoop(_, _, _)
RECURSIVE blockWriterLoop(_, _, _)

\* A Flush that forgets a failed Write: the data is dropped and no error
\* is kept.
bufioFlushForgetful(b) ==
    LET After(r) == [b EXCEPT !.wr = r.w, !.buf = <<>>]
    IN  IF b.err # "nil" THEN b
        ELSE IF Len(b.buf) = 0 THEN b
        ELSE After(Write(b.wr, b.buf))

\* bufio.Writer.Flush.
bufioFlush(b) ==
    LET After(r, e) ==
            IF e # "nil"
            THEN [b EXCEPT !.wr = r.w, !.buf = Drop(b.buf, r.n), !.err = e]
            ELSE [b EXCEPT !.wr = r.w, !.buf = <<>>]
        Checked(r) ==
            After(r, IF r.n < Len(b.buf) /\ r.err = "nil" THEN "short write" ELSE r.err)
    IN  IF b.err # "nil" THEN b
        ELSE IF Len(b.buf) = 0 THEN b
        ELSE Checked(Write(b.wr, b.buf))

\* bufio.Writer.Write: its loop, with nn the bytes taken so far.
bufioWriteLoop(b, p, nn) ==
    LET n == DefaultBufSize - Len(b.buf)
        \* a large write with an empty buffer goes straight through
        Direct(r) == bufioWriteLoop([b EXCEPT !.wr = r.w, !.err = r.err],
                                    Drop(p, r.n), nn + r.n)
    IN  IF Len(p) > n /\ b.err = "nil"
        THEN IF Len(b.buf) = 0
             THEN Direct(Write(b.wr, p))
             ELSE bufioWriteLoop(bufioFlush([b EXCEPT !.buf = @ \o Take(p, n)]),
                                 Drop(p, n), nn + n)
        ELSE IF b.err # "nil"
             THEN [w |-> b, n |-> nn, err |-> b.err]
             ELSE [w |-> [b EXCEPT !.buf = @ \o p], n |-> nn + Len(p), err |-> "nil"]

bufioWrite(b, p) == bufioWriteLoop(b, p, 0)

\* A run of bufio.Writer.WriteByte calls, one per byte of p, which stops at
\* the first call that fails: a WriteByte on a full buffer flushes first.
RECURSIVE bufioWriteBytes(_, _)
bufioWriteBytes(b, p) ==
    LET n == Min(Len(p), DefaultBufSize - Len(b.buf))
        Flushed(f) == IF f.err # "nil" THEN [w |-> f, err |-> f.err]
                      ELSE bufioWriteBytes(f, p)
    IN  IF b.err # "nil" THEN [w |-> b, err |-> b.err]
        ELSE IF Len(p) = 0 THEN [w |-> b, err |-> "nil"]
        ELSE IF DefaultBufSize - Len(b.buf) <= 0 THEN Flushed(bufioFlush(b))
        ELSE bufioWriteBytes([b EXCEPT !.buf = @ \o Take(p, n)], Drop(p, n))

\* blockWriter.Write: its loop.  buf holds the n data bytes of b.buf[1:].
blockWriterLoop(b, p, total) ==
    LET n == Min(Len(p), BlockMax - Len(b.buf))
        buf == b.buf \o Take(p, n)
        Sent(r) == IF r.err # "nil"
                   THEN [w |-> [b EXCEPT !.buf = buf, !.w = r.w],
                         n |-> total + n, err |-> r.err]
                   ELSE blockWriterLoop([b EXCEPT !.buf = <<>>, !.w = r.w],
                                        Drop(p, n), total + n)
    IN  IF Len(p) = 0 THEN [w |-> b, n |-> total, err |-> "nil"]
        ELSE IF Len(buf) = BlockMax THEN Sent(Write(b.w, <<BlockMax>> \o buf))
        ELSE blockWriterLoop([b EXCEPT !.buf = buf], Drop(p, n), total + n)

\* A Write that takes no more of p than one block holds.
blockWriterWriteShort(b, p) == blockWriterLoop(b, Take(p, Min(Len(p), BlockMax)), 0)

blockWriterWrite(b, p) == blockWriterLoop(b, p, 0)

\* A close that writes its block whether or not bytes are buffered.
blockWriterCloseAlways(b) ==
    LET Sent(r) == [w |-> [b EXCEPT !.w = r.w], err |-> r.err]
    IN  Sent(Write(b.w, <<Len(b.buf)>> \o b.buf))

\* blockWriter.close: the buffered bytes, if any, as a last short block.
blockWriterClose(b) ==
    LET Sent(r) == [w |-> [b EXCEPT !.w = r.w], err |-> r.err]
    IN  IF Len(b.buf) > 0 THEN Sent(Write(b.w, <<Len(b.buf)>> \o b.buf))
        ELSE [w |-> b, err |-> "nil"]

\* io.Writer.Write on any of the writers.
Write(w, p) ==
    CASE w.kind = "sink" -> sinkWrite(w, p)
      [] w.kind = "buffer" -> bufferWrite(w, p)
      [] w.kind = "bufio" -> bufioWrite(w, p)
      [] w.kind = "block" -> blockWriterWrite(w, p)
      [] w.kind = "log" -> logWrite(w, p)

\* ------------------------------------------------------------------------
\* compress/lzw's Writer in LSB order, as lzw.NewWriter(bw, lzw.LSB,
\* litWidth) builds it: the code table is the map key -> code that its hash
\* table represents, out collects the bytes of the codes written so far and
\* w is the bufio.Writer the Writer puts around a destination that has no
\* WriteByte of its own (the blockWriter).

lzwNewWriter(dst, litWidth) ==
    [litWidth |-> litWidth, width |-> litWidth + 1, hi |-> Pow2(litWidth) + 1,
     overflow |-> Pow2(litWidth + 1), savedCode |-> invalidCode,
     table |-> <<>>, bits |-> 0, nBits |-> 0, out |-> <<>>, err |-> "nil",
     w |-> NewBufio(dst)]

\* Writer.writeLSB: code c joins the bit buffer above the nBits bits it
\* holds, and every whole byte leaves it, low byte first.
writeLSB(z, c) ==
    LET Put(total, nb) ==
            [z EXCEPT !.out = @ \o [i \in 1..(nb \div 8) |-> (total \div Pow2(8 * (i - 1))) % 256],
                      !.bits = total \div Pow2(8 * (nb \div 8)),
                      !.nBits = nb % 8]
    IN  Put(z.bits + c * Pow2(z.nBits), z.nBits + z.width)

\* Writer.incHi: the next implied code; the code width grows when hi
\* reaches overflow, and at maxCode a clear code is written and the table
\* is reset (reset is TRUE for errOutOfCodes).
incHi(z) ==
    LET clear == Pow2(z.litWidth)
        Stepped(grown) ==
            IF z.hi + 1 = maxCode
            THEN [z |-> [writeLSB(grown, clear) EXCEPT !.width = z.litWidth + 1,
                                                       !.hi = clear + 1,
                                                       !.overflow = clear * 2,
                                                       !.table = <<>>],
                  reset |-> TRUE]
            ELSE [z |-> grown, reset |-> FALSE]
    IN  Stepped(IF z.hi + 1 = z.overflow
                THEN [z EXCEPT !.hi = @ + 1, !.width = @ + 1, !.overflow = @ * 2]
                ELSE [z EXCEPT !.hi = @ + 1])

\* The loop of Writer.Write over the bytes p, code being the code of the
\* longest table entry matched so far.
RECURSIVE lzwLoop(_, _, _)
lzwLoop(z, code, p) ==
    LET key == code * 256 + Head(p)
        Emitted(inc) ==
            IF inc.reset
            THEN lzwLoop(inc.z, Head(p), Tail(p))
            ELSE lzwLoop([inc.z EXCEPT !.table = (key :> inc.z.hi) @@ @], Head(p), Tail(p))
    IN  IF Len(p) = 0 THEN [z EXCEPT !.savedCode = code]
        ELSE IF key \in DOMAIN z.table THEN lzwLoop(z, z.table[key], Tail(p))
        ELSE Emitted(incHi(writeLSB(z, code)))

\* The bytes collected in out go to w, one WriteByte each; the first one
\* that fails sets the Writer's error.
lzwEmit(z) ==
    LET Sent(r) == [z EXCEPT !.w = r.w, !.out = <<>>, !.err = r.err]
    IN  Sent(bufioWriteBytes(z.w, z.out))

\* Writer.Write.
lzwWrite(z, p) ==
    LET first == z.savedCode = invalidCode
        Done(done) ==
            [w |-> done, n |-> IF done.err = "nil" THEN Len(p) ELSE 0, err |-> done.err]
    IN  IF z.err # "nil" THEN [w |-> z, n |-> 0, err |-> z.err]
        ELSE IF Len(p) = 0 THEN [w |-> z, n |-> 0, err |-> "nil"]
        ELSE IF Pow2(z.litWidth) - 1 # 255 /\ \E i \in 1..Len(p) : p[i] > Pow2(z.litWidth) - 1
        THEN [w |-> [z EXCEPT !.err = "lzw: input byte too large for the litWidth"],
              n |-> 0, err |-> "lzw: input byte too large for the litWidth"]
        ELSE Done(lzwEmit(lzwLoop(IF first THEN writeLSB(z, Pow2(z.litWidth)) ELSE z,
                                  IF first THEN Head(p) ELSE z.savedCode,
                                  IF first THEN Tail(p) ELSE p)))

\* Writer.Close: the saved code (or the clear code no Write has sent), the
\* end-of-information code, the bits left over, and a Flush of w.
lzwClose(z) ==
    LET Final(eof) == IF eof.nBits > 0
                      THEN [eof EXCEPT !.out = @ \o <<eof.bits % 256>>]
                      ELSE eof
        Flushed(sent, f) == [w |-> [sent EXCEPT !.w = f, !.err = "closed"], err |-> f.err]
        Done(sent) == IF sent.err # "nil"
                      THEN [w |-> [sent EXCEPT !.err = "closed"], err |-> sent.err]
                      ELSE Flushed(sent, bufioFlush(sent.w))
    IN  IF z.err # "nil" THEN [w |-> z, err |-> IF z.err = "closed" THEN "nil" ELSE z.err]
        ELSE Done(lzwEmit(Final(writeLSB(IF z.savedCode # invalidCode
                                         THEN incHi(writeLSB(z, z.savedCode)).z
                                         ELSE writeLSB(z, Pow2(z.litWidth)),
                                         Pow2(z.litWidth) + 1))))

\* ------------------------------------------------------------------------
\* Images.  A source image m is [kind, min, dx, dy, at, opaque, zlen]: kind
\* is "RGBA64" for an image.RGBA64Image and "generic" otherwise, min is the
\* origin of its bounds, at maps a point <<x, y>> of the bounds to the
\* 16-bit channels <<R, G, B>> of its colour.  An image too large to
\* enumerate pixel by pixel is opaque: the model carries no pixels for it,
\* and in their place zlen, the number of bytes a strip of it compresses to
\* (the compressed bytes themselves are taken to be 0).
\* A paletted image pm is [min, dx, dy, Pix, Palette, opaque, zlen], with
\* Stride = dx and Pix[y*Stride + x + 1] the index of pixel (x, y).

\* A table whose top step is 6.
FastGifLutSix ==
    [v \in 0..255 |-> IF v < 26 THEN 0 ELSE IF v < 77 THEN 1 ELSE IF v < 128 THEN 2
                      ELSE IF v < 179 THEN 3 ELSE IF v < 230 THEN 4 ELSE 6]

\* A table whose steps begin just above the multiples of 51.
FastGifLutLow == [v \in 0..255 |-> IF v = 0 THEN 0 ELSE (v - 1) \div 51]

FastGifLut ==
    [v \in 0..255 |-> IF v < 26 THEN 0 ELSE IF v < 77 THEN 1 ELSE IF v < 128 THEN 2
                      ELSE IF v < 179 THEN 3 ELSE IF v < 230 THEN 4 ELSE 5]

\* palette.WebSafe: entry 36r + 6g + b is (0x33 r, 0x33 g, 0x33 b).
WebSafe ==
    [i \in 1..WebSafeLen |->
        <<51 * ((i - 1) \div 36), 51 * (((i - 1) \div 6) % 6), 51 * ((i - 1) % 6)>>]

\* image.NewPaletted(b, p): a zeroed index buffer over the bounds of m.
NewPaletted(m, p) ==
    [min |-> m.min, dx |-> m.dx, dy |-> m.dy,
     Pix |-> IF m.opaque THEN <<>> ELSE [i \in 1..(m.dx * m.dy) |-> 0],
     Palette |-> p, opaque |-> m.opaque, zlen |-> m.zlen]

\* The index the colour mapper of getColorMapper computes for pixel (x, y):
\* the fast path shifts the 16-bit channels of RGBA64At, the generic path
\* shifts and masks the 32-bit values of At(x, y).RGBA().
colorIndex(m, x, y) ==
    LET c == m.at[<<x, y>>]
        hi(v) == IF m.kind = "RGBA64" THEN v \div 256 ELSE (v \div 256) % 256
    IN  (36 * FastGifLut[hi(c[1])] + 6 * FastGifLut[hi(c[2])] + FastGifLut[hi(c[3])]) % 256

\* pm.SetColorIndex(x, y, index): nothing outside the rectangle.
SetColorIndex(pm, x, y, index) ==
    IF x >= pm.min[1] /\ x < pm.min[1] + pm.dx /\ y >= pm.min[2] /\ y < pm.min[2] + pm.dy
    THEN [pm EXCEPT !.Pix[(y - pm.min[2]) * pm.dx + (x - pm.min[1]) + 1] = index]
    ELSE pm

\* A worker count that is never reduced.
effectiveWorkersAll(height, workers) == workers

\* The row ranges <<start, end>> the three partitioning loops hand to
\* their workers, with rows numbered from 0: height/workers rows each, the
\* last one up to height; fewer rows than workers makes one row each.
effectiveWorkers(height, workers) ==
    IF height \div workers < 1 THEN height ELSE workers

\* Ranges of height/workers rows each, the last one like the others.
rowRangesEven(height, workers) ==
    LET rowsPerWorker == IF height \div workers < 1 THEN 1 ELSE height \div workers
        n == effectiveWorkers(height, workers)
    IN  [i \in 1..n |-> <<(i - 1) * rowsPerWorker, (i - 1) * rowsPerWorker + rowsPerWorker>>]

\* Ranges that each run one row into the next.
rowRangesLong(height, workers) ==
    LET rowsPerWorker == IF height \div workers < 1 THEN 1 ELSE height \div workers
        n == effectiveWorkers(height, workers)
    IN  [i \in 1..n |-> <<(i - 1) * rowsPerWorker,
                          IF i = n THEN height ELSE (i - 1) * rowsPerWorker + rowsPerWorker + 1>>]

\* Ranges of the quotient rounded up.
rowRangesCeil(height, workers) ==
    LET rowsPerWorker == (height + workers - 1) \div workers
        n == effectiveWorkers(height, workers)
    IN  [i \in 1..n |-> <<(i - 1) * rowsPerWorker,
                          IF i = n THEN height ELSE (i - 1) * rowsPerWorker + rowsPerWorker>>]

\* Every worker given all the rows.
rowRangesWhole(height, workers) ==
    [i \in 1..effectiveWorkers(height, workers) |-> <<0, height>>]

rowRanges(height, workers) ==
    LET rowsPerWorker == IF height \div workers < 1 THEN 1 ELSE height \div workers
        n == effectiveWorkers(height, workers)
    IN  [i \in 1..n |-> <<(i - 1) * rowsPerWorker,
                          IF i = n THEN height ELSE (i - 1) * rowsPerWorker + rowsPerWorker>>]

\* One quantizer worker: mapFunc(pm, m, b.Min.X, b.Max.X, sy, ey), with the
\* rows sy..ey-1 counted from b.Min.Y.
mapFunc(pm, m, sy, ey) ==
    [pm EXCEPT !.Pix =
        [i \in 1..Len(pm.Pix) |->
            LET y == (i - 1) \div m.dx
                x == (i - 1) % m.dx
            IN  IF y >= sy /\ y < ey
                THEN colorIndex(m, m.min[1] + x, m.min[2] + y)
                ELSE pm.Pix[i]]]

\* mapColors: every worker's rows mapped, after wg.Wait().
RECURSIVE mapStrips(_, _, _)
mapStrips(pm, m, ranges) ==
    IF Len(ranges) = 0 THEN pm
    ELSE mapStrips(mapFunc(pm, m, Head(ranges)[1], Head(ranges)[2]), m, Tail(ranges))

mapColors(pm, m, workers) ==
    IF m.opaque THEN pm ELSE mapStrips(pm, m, rowRanges(m.dy, workers))

\* ------------------------------------------------------------------------
\* encodeGIF.

\* The bytes of writeUint16: little-endian.
Uint16(v) == <<(v % 65536) % 256, (v % 65536) \div 256>>

\* log2 of gif.go: the index of the first of 2, 4, ..., 256 that is >= x.
log2(x) ==
    IF \E i \in 0..7 : x <= Pow2(i + 1)
    THEN CHOOSE i \in 0..7 : x <= Pow2(i + 1) /\ \A j \in 0..(i - 1) : x > Pow2(j + 1)
    ELSE -1

\* paddedSize: doubled from 1 while below the palette length and below 256.
RECURSIVE paddedSizeFrom(_, _)
paddedSizeFrom(size, n) ==
    IF size < n /\ size < 256 THEN paddedSizeFrom(size * 2, n) ELSE size

paddedSize(n) == paddedSizeFrom(1, n)

\* litWidth: 8, or for a non-empty palette the first of 2..7 with
\* 1<<litWidth >= n, and 8 when there is none.
RECURSIVE litWidthFrom(_, _)
litWidthFrom(lw, n) ==
    IF lw < 8 /\ Pow2(lw) < n THEN litWidthFrom(lw + 1, n) ELSE lw

litWidthOf(n) == IF n > 0 THEN litWidthFrom(2, n) ELSE 8

\* writeColorTable: the entries i with lo <= i < hi of the table, 3 bytes
\* each and black beyond the palette, written in order up to the first
\* Write that fails (the range is halved to keep the evaluation shallow).
RECURSIVE writeColorEntries(_, _, _, _)
writeColorEntries(w, p, lo, hi) ==
    LET mid == (lo + hi) \div 2
        One(r) == [w |-> r.w, err |-> r.err]
        Rest(left) == IF left.err # "nil" THEN left ELSE writeColorEntries(left.w, p, mid, hi)
    IN  IF lo >= hi THEN [w |-> w, err |-> "nil"]
        ELSE IF hi = lo + 1
        THEN One(Write(w, IF lo < Len(p) THEN p[lo + 1] ELSE <<0, 0, 0>>))
        ELSE Rest(writeColorEntries(w, p, lo, mid))

writeColorTable(w, p, padded) == writeColorEntries(w, p, 0, padded)

\* Everything encodeGIF writes to bw before the image data; no result of
\* these writes is looked at.
writeHeader(bw, pm) ==
    LET sig == bufioWriteBytes(bw, <<71, 73, 70, 56, 57, 97>>).w
        lsd == Write(Write(sig, Uint16(pm.dx)).w, Uint16(pm.dy)).w
        pad == paddedSize(Len(pm.Palette))
        packed == bufioWriteBytes(lsd, <<128 + (log2(pad) % 256), 0, 0>>).w
        table == writeColorTable(packed, pm.Palette, pad).w
        sep == bufioWriteBytes(table, <<44>>).w
        pos == Write(Write(sep, Uint16(0)).w, Uint16(0)).w
        dim == Write(Write(pos, Uint16(pm.dx)).w, Uint16(pm.dy)).w
        flags == bufioWriteBytes(dim, <<0>>).w
    IN  bufioWriteBytes(flags, <<litWidthOf(Len(pm.Palette))>>).w

\* ------------------------------------------------------------------------
\* writeLZWData and writeParallelLZW.

\* The rows sy..ey-1 of pm.Pix, row-major (for an opaque image: the zlen
\* bytes those rows compress to).
stripData(pm, sy, ey) ==
    IF pm.opaque THEN [i \in 1..pm.zlen |-> 0]
    ELSE SubSeq(pm.Pix, sy * pm.dx + 1, ey * pm.dx)

\* imageData after the copying workers of writeLZWData have been joined:
\* every row some worker was given is copied, the others stay 0.
imageData(pm, ranges) ==
    IF pm.opaque THEN stripData(pm, 0, pm.dy)
    ELSE [i \in 1..(pm.dx * pm.dy) |->
            IF \E k \in 1..Len(ranges) :
                  /\ (i - 1) \div pm.dx >= ranges[k][1]
                  /\ (i - 1) \div pm.dx < ranges[k][2]
            THEN pm.Pix[i] ELSE 0]

\* lzww.Write(data); the data of an opaque image is compressed already and
\* goes through as it is, leaving a code to close with.
lzwWritePix(z, pm, data) ==
    LET Done(sent) ==
            [w |-> sent, n |-> IF sent.err = "nil" THEN Len(data) ELSE 0, err |-> sent.err]
    IN  IF pm.opaque THEN Done(lzwEmit([z EXCEPT !.out = data, !.savedCode = 0]))
        ELSE lzwWrite(z, data)

\* lzww.Write, lzww.Close and bw.close on a blockWriter over dst, as both
\* compressors run them; the result is [w, err], w being dst afterwards.
compressTo(dst, pm, litWidth, data) ==
    LET BlockClosed(bc) == [w |-> bc.w.w, err |-> bc.err]
        Closed(cl) == IF cl.err # "nil"
                      THEN [w |-> cl.w.w.wr.w, err |-> cl.err]
                      ELSE BlockClosed(blockWriterClose(cl.w.w.wr))
        Written(wr) == IF wr.err # "nil"
                       THEN [w |-> lzwClose(wr.w).w.w.wr.w, err |-> wr.err]
                       ELSE Closed(lzwClose(wr.w))
    IN  Written(lzwWritePix(lzwNewWriter(NewBlockWriter(dst), litWidth), pm, data))

\* One worker of writeParallelLZW: the chunk {idx, data, err} it sends.
compressStrip(pm, litWidth, idx, sy, ey) ==
    LET Chunk(r) == IF r.err # "nil"
                    THEN [idx |-> idx, data |-> <<>>, err |-> r.err]
                    ELSE [idx |-> idx, data |-> r.w.data, err |-> "nil"]
    IN  Chunk(compressTo(NewBuffer, pm, litWidth, stripData(pm, sy, ey)))

\* The last loop of writeParallelLZW: the chunks written in slot order, up
\* to the first Write that fails.
RECURSIVE writeChunks(_, _)
writeChunks(w, chunks) ==
    LET Sent(r) == IF r.err # "nil" THEN [w |-> r.w, err |-> r.err]
                   ELSE writeChunks(r.w, Tail(chunks))
    IN  IF Len(chunks) = 0 THEN [w |-> w, err |-> "nil"]
        ELSE Sent(Write(w, Head(chunks)))

\* writeParallelLZW with its workers run to completion: an error of a
\* worker is returned before anything is written.
writeParallelLZW(w, pm, litWidth, workers) ==
    LET Failed(results) == {i \in 1..Len(results) : results[i].err # "nil"}
        First(failed) == CHOOSE i \in failed : \A j \in failed : i <= j
        Collected(results, failed) ==
            IF failed # {}
            THEN [w |-> w, err |-> results[First(failed)].err]
            ELSE writeChunks(w, [i \in 1..Len(results) |-> results[i].data])
        Joined(results) == Collected(results, Failed(results))
        Started(ranges) ==
            Joined([i \in 1..Len(ranges) |->
                       compressStrip(pm, litWidth, i - 1, ranges[i][1], ranges[i][2])])
    IN  Started(rowRanges(pm.dy, workers))

\* The test of gif.go's writeLZWData for the parallel path; part_000 has
\* none.
useParallel(v, dy, workers) == v = "gip" /\ workers > 1 /\ dy >= workers * 4

\* writeLZWData, but for the division by a worker count of 0, which the
\* action that calls it models.
writeLZWData(v, w, pm, litWidth, workers) ==
    IF useParallel(v, pm.dy, workers)
    THEN writeParallelLZW(w, pm, litWidth, workers)
    ELSE compressTo(w, pm, litWidth, imageData(pm, rowRanges(pm.dy, workers)))

\* The length of everything before the image data: signature, logical
\* screen descriptor, colour table of n entries, image descriptor and the
\* code size byte.
HeaderLen(n) == 6 + 7 + 3 * n + 10 + 1

\* The end of encodeGIF: the block terminator, the trailer and bw.Flush().
writeTrailer(bw) ==
    bufioFlush(bufioWriteBytes(bufioWriteBytes(bw, <<0>>).w, <<59>>).w)

\* A test of the bounds that lets 65536 through.
tooLargeAbove(dx, dy) == dx > SizeLimit \/ dy > SizeLimit

\* A test of the bounds that stops 65535 already.
tooLargeEarly(dx, dy) == dx >= SizeLimit - 1 \/ dy >= SizeLimit - 1

\* Encode's test of the bounds.
tooLarge(dx, dy) == dx >= SizeLimit \/ dy >= SizeLimit

\* Encode's choice of the worker count: o is [nil, Workers].
workerCount(o, numCPU) == IF ~o.nil /\ o.Workers > 0 THEN o.Workers ELSE numCPU

\* ------------------------------------------------------------------------
\* The state: one call Encode(w, m, o).
\*   variant  "gip" for src/gif.go, "gifp" for src/unnamed/part_000
\*   numCPU   runtime.NumCPU()
\*   palette  the package variable palette.WebSafe the call reads
\*   m, o     the arguments; sink is the argument w
\*   pc       where the call stands; ret its result once pc = "done"
\*   workers  Encode's and then encodeGIF's variable workers
\*   pm       the paletted image; bw encodeGIF's bufio.Writer over sink
\* The arguments of Encode, the sink, the position of the call, and its
\* locals; blk is a blockWriter driven on its own, par the goroutines and
\* the channel of writeParallelLZW, q the goroutines of the quantizer.
VARIABLES variant, numCPU, palette, m, o, sink, pc, workers, pm, bw, ret, blk, par, q

vars == <<variant, numCPU, palette, m, o, sink, pc, workers, pm, bw, ret, blk, par, q>>

inputs == <<variant, numCPU, palette, m, o>>

\* Bounds of the inputs.
MaxDy == 8
MaxWorkers == 3
MaxCPU == 2

Variants == {"gip", "gifp"}

Colors == {<<0, 0, 0>>, <<65535, 0, 0>>}

Points(x0, y0, dx, dy) == {<<x, y>> : x \in x0..(x0 + dx - 1), y \in y0..(y0 + dy - 1)}

\* The images of dx by dy pixels at origin <<x0, y0>> with colours from cs.
Images(kind, x0, y0, dx, dy, cs) ==
    {[kind |-> kind, min |-> <<x0, y0>>, dx |-> dx, dy |-> dy, at |-> f,
      opaque |-> FALSE, zlen |-> 0] : f \in [Points(x0, y0, dx, dy) -> cs]}

Options ==
    {[nil |-> TRUE, Workers |-> 0]} \cup {[nil |-> FALSE, Workers |-> k] : k \in (-1)..MaxWorkers}

NoPm == [min |-> <<0, 0>>, dx |-> 0, dy |-> 0, Pix |-> <<>>, Palette |-> <<>>,
         opaque |-> FALSE, zlen |-> 0]

\* No blockWriter of its own, no goroutines.
NoBlk == [pc |-> "none"]
NoPar == [pc |-> "none"]
NoQ == [pc |-> "none"]

\* The call has not begun: nothing is written, nothing is built.
Entry(failAt) ==
    /\ blk = NoBlk /\ par = NoPar /\ q = NoQ
    /\ sink = NewSink(failAt)
    /\ pc = "Encode"
    /\ workers = 0
    /\ pm = NoPm
    /\ bw = NewBufio(sink)
    /\ ret = "none"

Init ==
    /\ variant \in Variants
    /\ numCPU \in 1..MaxCPU
    /\ palette = WebSafe
    /\ m \in UNION {Images("RGBA64", 0, 0, 1, dy, Colors) : dy \in 0..MaxDy}
    /\ o \in Options
    /\ Entry(0)

\* Encode up to its test of the bounds.
EncodeBegin ==
    /\ pc = "Encode"
    /\ workers' = workerCount(o, numCPU)
    /\ IF tooLarge(m.dx, m.dy)
       THEN pc' = "done" /\ ret' = "gif: image is too large to encode"
       ELSE pc' = "mapColors" /\ ret' = ret
    /\ UNCHANGED <<inputs, blk, par, q, sink, pm, bw>>

\* image.NewPaletted, the quantizer up to its wg.Wait(), and the move of
\* the rectangle to the origin.  part_000 clamps Encode's own workers.
MapColors ==
    /\ pc = "mapColors"
    /\ pm' = [mapColors(NewPaletted(m, palette), m, workers) EXCEPT !.min = <<0, 0>>]
    /\ workers' = IF variant = "gifp" THEN effectiveWorkers(m.dy, workers) ELSE workers
    /\ pc' = "encodeGIF"
    /\ UNCHANGED <<inputs, blk, par, q, sink, bw, ret>>

\* encodeGIF up to the LZW minimum code size byte.
EncodeGIF ==
    /\ pc = "encodeGIF"
    /\ IF Len(pm.Palette) = 0
       THEN /\ pc' = "done"
            /\ ret' = "gif: cannot encode image block with empty palette"
            /\ UNCHANGED <<bw, sink>>
       ELSE /\ bw' = writeHeader(NewBufio(sink), pm)
            /\ sink' = bw'.wr
            /\ pc' = "writeLZWData"
            /\ ret' = ret
    /\ UNCHANGED <<inputs, blk, par, q, workers, pm>>

\* The call of writeLZWData and encodeGIF's test of its result.  Without
\* the parallel path, dy / workers panics when workers is 0.
WriteLZWData ==
    /\ pc = "writeLZWData"
    /\ IF ~useParallel(variant, pm.dy, workers) /\ workers = 0
       THEN /\ pc' = "done"
            /\ ret' = "panic: integer divide by zero"
            /\ UNCHANGED <<bw, sink>>
       ELSE \E r \in {writeLZWData(variant, bw, pm, litWidthOf(Len(pm.Palette)), workers)} :
                /\ bw' = r.w
                /\ sink' = r.w.wr
                /\ IF r.err # "nil"
                   THEN pc' = "done" /\ ret' = r.err
                   ELSE pc' = "trailer" /\ ret' = ret
    /\ UNCHANGED <<inputs, blk, par, q, workers, pm>>

\* The terminator, the trailer and the result of bw.Flush().
Trailer ==
    /\ pc = "trailer"
    /\ bw' = writeTrailer(bw)
    /\ sink' = bw'.wr
    /\ ret' = bw'.err
    /\ pc' = "done"
    /\ UNCHANGED <<inputs, blk, par, q, workers, pm>>

Next == EncodeBegin \/ MapColors \/ EncodeGIF \/ WriteLZWData \/ Trailer

Spec == Init /\ [][Next]_vars

\* ------------------------------------------------------------------------
\* Encode on images up to the size limit, with a sink that may fail.  The
\* images are opaque: their dimensions and the length a strip of them
\* compresses to, chosen so that the buffers of the writers fill up.

MaxFail == 3

\* Lengths of compressed data: a few bytes; the length that leaves bw full
\* to the last byte when the terminator is written; more than one buffer.
ZLens == {2, DefaultBufSize - HeaderLen(256) - 13 - 3, DefaultBufSize + 904}

BigDims == {<<1, 1>>, <<1, 65535>>, <<65535, 1>>, <<1, 65536>>, <<65536, 1>>}

OpaqueImages ==
    {[kind |-> "RGBA64", min |-> <<0, 0>>, dx |-> d[1], dy |-> d[2], at |-> <<>>,
      opaque |-> TRUE, zlen |-> z] : d \in BigDims, z \in ZLens}

InitIO ==
    /\ variant \in Variants
    /\ numCPU \in 1..MaxCPU
    /\ palette \in {WebSafe, <<>>}
    /\ m \in OpaqueImages
    /\ o \in Options
    /\ \E failAt \in 0..MaxFail : Entry(failAt)

SpecIO == InitIO /\ [][Next]_vars


\* ------------------------------------------------------------------------
\* A GIF decoder's reading of the image data, for the claims about what a
\* decoder recovers: the data sub-blocks up to the zero-length block, and
\* the variable-width LZW codes in them up to the first end-of-information
\* code.

\* The data bytes of the sub-blocks that start at position pos of bytes.
RECURSIVE Deblock(_, _)
Deblock(bytes, pos) ==
    IF pos > Len(bytes) THEN <<>>
    ELSE IF bytes[pos] = 0 THEN <<>>
    ELSE SubSeq(bytes, pos + 1, Min(pos + bytes[pos], Len(bytes)))
            \o Deblock(bytes, pos + bytes[pos] + 1)

\* Bit i (from 0) of data, least significant bit of each byte first.
BitAt(data, i) == (data[(i \div 8) + 1] \div Pow2(i % 8)) % 2

RECURSIVE CodeAt(_, _, _)
CodeAt(data, pos, width) ==
    IF width = 0 THEN 0 ELSE BitAt(data, pos) + 2 * CodeAt(data, pos + 1, width - 1)

\* The decoder's loop: d is [pos, width, hi, overflow, last, dict, out],
\* dict mapping each code above the literals to the bytes it stands for.
Expand(d, lw, code) == IF code < Pow2(lw) THEN <<code>> ELSE d.dict[code]

RECURSIVE Unlzw(_, _, _)
Unlzw(data, lw, d) ==
    LET clear == Pow2(lw)
        next == d.pos + d.width
        hi == d.hi + 1
        full == hi >= d.overflow /\ d.width = 12
        grow == hi >= d.overflow /\ d.width < 12
        Added(code, prev, str) ==
            Unlzw(data, lw,
                  [pos |-> next,
                   width |-> IF grow THEN d.width + 1 ELSE d.width,
                   hi |-> IF full THEN hi - 1 ELSE hi,
                   overflow |-> IF grow THEN 2 * d.overflow ELSE d.overflow,
                   last |-> IF full THEN -1 ELSE code,
                   dict |-> IF d.last = -1 THEN d.dict
                            ELSE (d.hi :> (prev \o <<Head(str)>>)) @@ d.dict,
                   out |-> d.out \o str])
        Known(code, prev) ==
            Added(code, prev, IF code = d.hi THEN prev \o <<Head(prev)>>
                              ELSE Expand(d, lw, code))
        Step(code) ==
            IF code = clear
            THEN Unlzw(data, lw, [d EXCEPT !.pos = next, !.width = lw + 1, !.hi = clear + 1,
                                           !.overflow = Pow2(lw + 1), !.last = -1])
            ELSE IF code = clear + 1 THEN d.out
            ELSE IF code > d.hi \/ (code = d.hi /\ d.last = -1) THEN d.out
            ELSE Known(code, IF d.last = -1 THEN <<>> ELSE Expand(d, lw, d.last))
    IN  IF d.pos + d.width > 8 * Len(data) THEN d.out
        ELSE Step(CodeAt(data, d.pos, d.width))

\* The indices a decoder recovers from the stream bytes of an image whose
\* colour table has n entries and whose code size byte is lw.
Decoded(bytes, n, lw) ==
    Unlzw(Deblock(bytes, HeaderLen(n) + 1), lw,
          [pos |-> 0, width |-> lw + 1, hi |-> Pow2(lw) + 1, overflow |-> Pow2(lw + 1),
           last |-> -1, dict |-> <<>>, out |-> <<>>])

\* The stream Encode writes for pm when it runs with one worker.
OneWorkerStream(v, p) ==
    LET lw == litWidthOf(Len(p.Palette))
        head == writeHeader(NewBufio(NewSink(0)), p)
    IN  writeTrailer(writeLZWData(v, head, p, lw, 1).w).wr.data

Finished == pc = "done" /\ ret = "nil"

\* C1: when Encode has returned without error, a decoder that reads the
\* image data up to the first end-of-information code recovers all W*H
\* indices, each the index the quantizer computed.
C1_RoundTrip ==
    Finished => Decoded(sink.data, paddedSize(Len(pm.Palette)), litWidthOf(Len(pm.Palette))) = pm.Pix

\* C2: when Encode has returned without error, the stream it wrote is the
\* stream it writes with one worker: one LZW stream over the whole image.
C2_WorkerIndependent ==
    Finished => sink.data = OneWorkerStream(variant, pm)

\* ------------------------------------------------------------------------
\* Error handling (SpecIO).

Returned == pc = "done"

\* C4: a width or height of 65536 or more, or an empty palette, makes
\* Encode return the matching error with nothing written to the sink, and
\* a width and height of at most 65535 are not rejected as too large.
C4_PreconditionErrors ==
    /\ (Returned /\ (m.dx >= 65536 \/ m.dy >= 65536))
          => (ret = "gif: image is too large to encode" /\ sink.calls = 0 /\ sink.data = <<>>)
    /\ (Returned /\ m.dx < 65536 /\ m.dy < 65536 /\ Len(palette) = 0)
          => (/\ ret = "gif: cannot encode image block with empty palette"
              /\ sink.calls = 0 /\ sink.data = <<>>)
    /\ (m.dx <= 65535 /\ m.dy <= 65535) => ret # "gif: image is too large to encode"

C4_Witness ==
    Returned /\ m.dx = 65536 /\ ret = "gif: image is too large to encode" /\ sink.calls = 0

\* C5: once a Write of the sink has failed no further Write is made on
\* it, and Encode returns an error.
C5_SinkFailure ==
    /\ sink.failAt > 0 => sink.calls <= sink.failAt
    /\ (Returned /\ sink.failAt > 0 /\ sink.calls >= sink.failAt) => ret # "nil"

\* The sink failed while the image data was being written: bw still holds
\* what it could not flush, and the call is over with the sink's error.
C5_Witness ==
    /\ Returned /\ ret = "sink"
    /\ sink.failAt = 2 /\ sink.calls = 2
    /\ Len(bw.buf) = DefaultBufSize

\* C7: with a sink that never fails, Encode returns no error for any image
\* of 1..65535 by 1..65535 pixels, whatever the options.
C7_ValidInputSucceeds ==
    (/\ Returned /\ sink.failAt = 0 /\ Len(palette) > 0
     /\ m.dx >= 1 /\ m.dx <= 65535 /\ m.dy >= 1 /\ m.dy <= 65535)
        => ret = "nil"

\* Three workers asked for, one row.
C7_Witness ==
    /\ Returned /\ ret = "nil" /\ sink.failAt = 0
    /\ m.dy = 1 /\ ~o.nil /\ o.Workers > m.dy /\ m.dx = 65535

\* ------------------------------------------------------------------------
\* Encode on a 1 by 1 image with palette.WebSafe replaced by a palette of
\* any length up to 256.

MaxPalette == 256

PaletteOfLen(n) == [i \in 1..n |-> <<1 + (i % 255), 255 - (i % 255), 7>>]

InitPal ==
    /\ variant \in Variants
    /\ numCPU = 1
    /\ palette \in {PaletteOfLen(n) : n \in 0..MaxPalette}
    /\ m \in Images("RGBA64", 0, 0, 1, 1, {<<0, 0, 0>>})
    /\ o = [nil |-> TRUE, Workers |-> 0]
    /\ Entry(0)

SpecPal == InitPal /\ [][Next]_vars

\* What bw holds before the image data is written: the colour table is
\* the bytes 14 .. Len - 11 of it, the packed byte is byte 11.
TableBytes == SubSeq(bw.buf, 14, Len(bw.buf) - 11)

DeclaredEntries == Pow2((bw.buf[11] % 8) + 1)

SmallestPow2(n) ==
    CHOOSE k \in {Pow2(i) : i \in 0..8} : k >= n /\ \A j \in {Pow2(i) : i \in 0..8} : j >= n => k <= j

TableShape(n) ==
    /\ Len(TableBytes) = 3 * SmallestPow2(n)
    /\ Len(TableBytes) = 3 * DeclaredEntries
    /\ \A i \in 1..Len(TableBytes) : i > 3 * n => TableBytes[i] = 0

\* C9: for every palette length from 1 to 256 the colour table written
\* has as many entries as the smallest power of two at or above the
\* length, which is also the 2^(n+1) the packed byte declares, and the
\* entries past the palette are black.
C9_ColorTableSize ==
    (pc = "writeLZWData" /\ Len(palette) >= 1 /\ Len(palette) <= 256)
        => TableShape(Len(palette))

\* The same from length 2 on.
C9_FromTwo ==
    (pc = "writeLZWData" /\ Len(palette) >= 2 /\ Len(palette) <= 256)
        => TableShape(Len(palette))

\* ------------------------------------------------------------------------
\* A blockWriter on its own: any sequence of Write calls and then close,
\* over a writer that never fails.

MaxWrites == 3

\* The lengths of the slices written.
WriteLens == {0, 1, 2, 254, 255, 256, 510, 511}

\* The n bytes that follow the first `from` bytes of the input: byte k of
\* the input is k mod 251.
InputBytes(from, n) == [i \in 1..n |-> (from + i) % 251]

\* No call of Encode is under way.
NoCall ==
    /\ numCPU = 1
    /\ palette = WebSafe
    /\ m \in Images("RGBA64", 0, 0, 1, 0, Colors)
    /\ o = [nil |-> TRUE, Workers |-> 0]
    /\ sink = NewSink(0)
    /\ pc = "none"
    /\ workers = 0
    /\ pm = NoPm
    /\ bw = NewBufio(sink)
    /\ ret = "none"

\* blk: the blockWriter b, the bytes handed to it so far, the number of
\* Write calls, and the length and the results of the last call.
InitBW ==
    /\ variant \in Variants
    /\ NoCall
    /\ blk = [pc |-> "open", b |-> NewBlockWriter(NewLog), in |-> <<>>, calls |-> 0,
              len |-> 0, n |-> 0, err |-> "nil"]
    /\ par = NoPar
    /\ q = NoQ

BWWrite ==
    /\ blk.pc = "open"
    /\ blk.calls < MaxWrites
    /\ \E len \in WriteLens :
          \E r \in {blockWriterWrite(blk.b, InputBytes(Len(blk.in), len))} :
              blk' = [blk EXCEPT !.b = r.w, !.in = @ \o InputBytes(Len(blk.in), len),
                                 !.calls = @ + 1, !.len = len, !.n = r.n, !.err = r.err]
    /\ UNCHANGED <<inputs, sink, pc, workers, pm, bw, ret, par, q>>

BWClose ==
    /\ blk.pc = "open"
    /\ \E r \in {blockWriterClose(blk.b)} :
          blk' = [blk EXCEPT !.b = r.w, !.pc = "closed", !.err = r.err]
    /\ UNCHANGED <<inputs, sink, pc, workers, pm, bw, ret, par, q>>

NextBW == BWWrite \/ BWClose

SpecBW == InitBW /\ [][NextBW]_vars

\* The blocks emitted so far, one per Write on the writer underneath.
Blocks == blk.b.w.writes

\* C6: every block the blockWriter emits is a length byte L in 1..255 and
\* then exactly L bytes; a block goes out exactly when 255 bytes are
\* buffered, so that before close there are as many blocks as whole 255s
\* in the input and each has L = 255; close adds one block for the rest
\* and none when nothing is buffered.
C6_SubBlockShape ==
    blk.pc # "none" =>
        /\ \A i \in 1..Len(Blocks) :
              /\ Len(Blocks[i]) >= 2
              /\ Blocks[i][1] >= 1 /\ Blocks[i][1] <= 255
              /\ Len(Blocks[i]) = Blocks[i][1] + 1
        /\ \A i \in 1..Len(Blocks) :
              (i < Len(Blocks) \/ blk.pc = "open") => Blocks[i][1] = 255
        /\ blk.pc = "open" =>
              /\ Len(Blocks) = Len(blk.in) \div 255
              /\ Len(blk.b.buf) = Len(blk.in) % 255
        /\ blk.pc = "closed" =>
              /\ Len(Blocks) = (Len(blk.in) + 254) \div 255
              /\ Len(blk.in) % 255 # 0 => Blocks[Len(Blocks)][1] = Len(blk.in) % 255

\* Three writes that end on a block boundary, and a close that had
\* nothing to emit.
C6_Witness ==
    /\ blk.pc = "closed" /\ blk.calls = 3
    /\ Len(blk.in) = 1020 /\ Len(Blocks) = 4
    /\ blk.b.buf = <<>>

\* ------------------------------------------------------------------------
\* Encode with writeParallelLZW run goroutine by goroutine: the strip
\* workers, the goroutine that closes the channel, and the collecting
\* loop and the writing loop of the caller.  par is [pc, ranges, wpc,
\* results, cap, closed, chunks, next, order]: wpc[i] is where worker i stands
\* ("run" before its send, "sent" before its wg.Done, "exit" after),
\* results is the channel, chunks the slots, next the number of chunks
\* written, and order the strip indices in the order they were received.

\* A slot filled from the other end of chunks.
storeReversed(chunks, result) ==
    [chunks EXCEPT ![Len(chunks) - result.idx] = result.data]

\* chunks[result.idx] = result.data
storeChunk(chunks, result) ==
    [chunks EXCEPT ![result.idx + 1] = result.data]

\* A collector that takes every result for a success.
resultErrIgnored(result) == "nil"

\* result.err, which the collecting loop tests.
resultErr(result) == result.err

\* The colours of w strips: all black, all red, or one red strip among
\* black ones.
StripColors(w) ==
    {f \in [1..w -> Colors] :
        Cardinality({i \in 1..w : f[i] # <<0, 0, 0>>}) \in {0, 1, w}}

\* The images of one column whose strips, as w workers cut them, have one
\* colour each.
StripedImages(w) ==
    {[kind |-> "RGBA64", min |-> <<0, 0>>, dx |-> 1, dy |-> h,
      at |-> [p \in Points(0, 0, 1, h) |-> f[Min(p[2] \div (h \div w), w - 1) + 1]],
      opaque |-> FALSE, zlen |-> 0] : f \in StripColors(w), h \in {4 * w, 4 * w + 1}}

\* palette.WebSafe, or the first four colours of it: with those the code
\* size is 2 and the index of a red pixel is too large for the compressor.
InitPar ==
    /\ variant = "gip"
    /\ numCPU = 1
    /\ palette \in {WebSafe, Take(WebSafe, 4)}
    /\ \E w \in 2..MaxWorkers :
          /\ o = [nil |-> FALSE, Workers |-> w]
          /\ m \in StripedImages(w)
    /\ Entry(0)

\* A channel with room for one chunk.
resultsCapOne(n) == 1

\* make(chan chunk, workers): the room in the channel.
resultsCap(n) == n

\* writeParallelLZW up to the start of its goroutines.
ParStart ==
    /\ pc = "writeLZWData"
    /\ useParallel(variant, pm.dy, workers)
    /\ \E ranges \in {rowRanges(pm.dy, workers)} :
          par' = [pc |-> "run", ranges |-> ranges,
                  wpc |-> [i \in 1..Len(ranges) |-> "run"],
                  results |-> <<>>, cap |-> resultsCap(Len(ranges)), closed |-> FALSE,
                  chunks |-> [i \in 1..Len(ranges) |-> <<>>],
                  next |-> 0, order |-> <<>>]
    /\ pc' = "collect"
    /\ UNCHANGED <<inputs, sink, workers, pm, bw, ret, blk, q>>

\* Worker i compresses its strip and sends its chunk, which it can do
\* when the channel has room.
WorkerSend ==
    /\ par.pc = "run"
    /\ Len(par.results) < par.cap
    /\ \E i \in DOMAIN par.wpc :
          /\ par.wpc[i] = "run"
          /\ par' = [par EXCEPT
                        !.wpc[i] = "sent",
                        !.results = Append(@, compressStrip(pm, litWidthOf(Len(pm.Palette)),
                                                            i - 1, par.ranges[i][1],
                                                            par.ranges[i][2]))]
    /\ UNCHANGED <<inputs, sink, pc, workers, pm, bw, ret, blk, q>>

\* The deferred wg.Done() of worker i.
WorkerExit ==
    /\ par.pc = "run"
    /\ \E i \in DOMAIN par.wpc :
          /\ par.wpc[i] = "sent"
          /\ par' = [par EXCEPT !.wpc[i] = "exit"]
    /\ UNCHANGED <<inputs, sink, pc, workers, pm, bw, ret, blk, q>>

\* wg.Wait() returns and the channel is closed.
Closer ==
    /\ par.pc = "run"
    /\ ~par.closed
    /\ \A i \in DOMAIN par.wpc : par.wpc[i] = "exit"
    /\ par' = [par EXCEPT !.closed = TRUE]
    /\ UNCHANGED <<inputs, sink, pc, workers, pm, bw, ret, blk, q>>

\* One pass of the collecting loop: an error ends the call.
CollectRecv ==
    /\ pc = "collect"
    /\ par.results # <<>>
    /\ \E result \in {Head(par.results)} :
          IF resultErr(result) # "nil"
          THEN /\ pc' = "done"
               /\ ret' = resultErr(result)
               /\ par' = [par EXCEPT !.results = Tail(@), !.order = Append(@, result.idx)]
          ELSE /\ pc' = pc
               /\ ret' = ret
               /\ par' = [par EXCEPT !.results = Tail(@), !.order = Append(@, result.idx),
                                     !.chunks = storeChunk(@, result)]
    /\ UNCHANGED <<inputs, sink, workers, pm, bw, blk, q>>

\* The collecting loop ends when the channel is closed and drained.
CollectEnd ==
    /\ pc = "collect"
    /\ par.results = <<>>
    /\ par.closed
    /\ pc' = "write"
    /\ UNCHANGED <<inputs, sink, workers, pm, bw, ret, blk, par, q>>

\* One pass of the writing loop; after the last chunk writeParallelLZW
\* returns nil to encodeGIF.
WriteChunk ==
    /\ pc = "write"
    /\ \E r \in {Write(bw, par.chunks[par.next + 1])} :
          /\ bw' = r.w
          /\ sink' = r.w.wr
          /\ par' = [par EXCEPT !.next = @ + 1]
          /\ IF r.err # "nil" THEN pc' = "done" /\ ret' = r.err
             ELSE IF par.next + 1 = Len(par.chunks) THEN pc' = "trailer" /\ ret' = ret
             ELSE pc' = pc /\ ret' = ret
    /\ UNCHANGED <<inputs, workers, pm, blk, q>>

NextPar ==
    \/ EncodeBegin \/ MapColors \/ EncodeGIF \/ ParStart
    \/ WorkerSend \/ WorkerExit \/ Closer
    \/ CollectRecv \/ CollectEnd \/ WriteChunk \/ Trailer

SpecPar == InitPar /\ [][NextPar]_vars

\* What the compressor has written to its output: the bytes that follow
\* the header.
ParWritten == Drop(sink.data \o bw.buf, HeaderLen(paddedSize(Len(pm.Palette))))

\* The chunk of strip i (from 1), as its worker compresses it.
StripChunk(i) ==
    compressStrip(pm, litWidthOf(Len(pm.Palette)), i - 1, par.ranges[i][1], par.ranges[i][2])

\* The chunks of the first k strips, in strip order.
RECURSIVE ChunksUpTo(_)
ChunksUpTo(k) == IF k = 0 THEN <<>> ELSE ChunksUpTo(k - 1) \o StripChunk(k).data

AllDelivered == \A i \in DOMAIN par.wpc : par.wpc[i] # "run"

\* C3: whatever the order in which the workers complete, what has been
\* written is the chunks of the strips 0 .. next-1 in strip order, each
\* once, and nothing is written before every worker has sent its result.
C3_OrderedCollection ==
    (par.pc = "run" /\ \A i \in DOMAIN par.wpc : StripChunk(i).err = "nil") =>
        /\ pc = "collect" => ParWritten = <<>>
        /\ pc = "write" => ParWritten = ChunksUpTo(par.next)
        /\ pc = "trailer" => ParWritten = ChunksUpTo(Len(par.chunks))
        /\ pc = "done" => ParWritten = ChunksUpTo(Len(par.chunks)) \o <<0, 59>>
        /\ pc \in {"write", "trailer", "done"} => AllDelivered
        /\ ParWritten # <<>> => AllDelivered

\* The call is over; the three chunks differ from their neighbours and
\* arrived last strip first.
C3_Witness ==
    /\ par.pc = "run" /\ pc = "done" /\ ret = "nil"
    /\ par.order = <<2, 1, 0>>
    /\ par.chunks[1] # par.chunks[2] /\ par.chunks[2] # par.chunks[3]
    /\ sink.data = writeHeader(NewBufio(NewSink(0)), pm).buf
                      \o par.chunks[1] \o par.chunks[2] \o par.chunks[3] \o <<0, 59>>

\* C10: when the worker of some strip fails to compress it, none of the
\* chunks is ever written, the writing loop is not reached, and the call
\* ends with the worker's error.
C10_WorkerFailure ==
    (par.pc = "run" /\ \E i \in DOMAIN par.wpc : StripChunk(i).err # "nil") =>
        /\ ParWritten = <<>>
        /\ sink.data = <<>>
        /\ pc \in {"collect", "done"}
        /\ pc = "done" => ret = "lzw: input byte too large for the litWidth"

\* Strip 0 compressed and was collected, then the failure of strip 1
\* arrived; strip 2 had not been sent yet.
C10_Witness ==
    /\ par.pc = "run" /\ pc = "done"
    /\ ret = "lzw: input byte too large for the litWidth"
    /\ Len(par.chunks) = 3
    /\ par.order = <<0, 1>>
    /\ par.chunks[1] # <<>>
    /\ par.wpc[3] = "run"
    /\ ParWritten = <<>>

\* ------------------------------------------------------------------------
\* Encode with the quantizer run goroutine by goroutine, a pixel at a
\* step.  q is [pc, ranges, pos, writes, by]: worker i has mapped the
\* first pos[i] pixels of its rows ranges[i], writes[c] counts the stores
\* into cell c of pm.Pix and by[c] is the set of workers that made them.

MaxQDx == 2
MaxQDy == 4

\* Colours whose channels lie on both sides of every step of FastGifLut.
EdgeColors ==
    <<<<0, 0, 0>>, <<65535, 0, 0>>, <<6655, 6656, 19711>>,
      <<19712, 32767, 32768>>, <<45823, 45824, 58879>>, <<58880, 65535, 25 * 256>>>>

\* The images of dx by dy pixels whose pixels run through EdgeColors from
\* one of two starting points.
EdgeImages ==
    {[kind |-> k, min |-> org, dx |-> dx, dy |-> dy,
      at |-> [p \in Points(org[1], org[2], dx, dy) |->
                 EdgeColors[(((p[1] - org[1]) + dx * (p[2] - org[2]) + shift) % 6) + 1]],
      opaque |-> FALSE, zlen |-> 0] :
        k \in {"RGBA64", "generic"}, org \in {<<0, 0>>, <<-1, 2>>},
        dx \in 1..MaxQDx, dy \in 0..MaxQDy, shift \in {0, 3}}

InitQuant ==
    /\ variant \in Variants
    /\ numCPU \in 1..MaxCPU
    /\ palette = WebSafe
    /\ m \in EdgeImages
    /\ o \in Options
    /\ Entry(0)

\* image.NewPaletted and the start of the workers.
QStart ==
    /\ pc = "mapColors"
    /\ pm' = NewPaletted(m, palette)
    /\ \E ranges \in {rowRanges(m.dy, workers)} :
          q' = [pc |-> "run", ranges |-> ranges,
                pos |-> [i \in 1..Len(ranges) |-> 0],
                writes |-> [c \in 1..(m.dx * m.dy) |-> 0],
                by |-> [c \in 1..(m.dx * m.dy) |-> {}]]
    /\ pc' = "wait"
    /\ UNCHANGED <<inputs, sink, workers, bw, ret, blk, par>>

\* One pass of the inner loop of some worker: the pixel is read, its
\* index computed and stored.
QStep ==
    /\ pc = "wait"
    /\ \E i \in DOMAIN q.pos :
          /\ q.pos[i] < (q.ranges[i][2] - q.ranges[i][1]) * m.dx
          /\ \E x \in {m.min[1] + (q.pos[i] % m.dx)} :
             \E y \in {m.min[2] + q.ranges[i][1] + (q.pos[i] \div m.dx)} :
                /\ pm' = SetColorIndex(pm, x, y, colorIndex(m, x, y))
                /\ q' = [q EXCEPT !.pos[i] = @ + 1,
                                  !.writes[(y - m.min[2]) * m.dx + (x - m.min[1]) + 1] = @ + 1,
                                  !.by[(y - m.min[2]) * m.dx + (x - m.min[1]) + 1] = @ \cup {i}]
    /\ UNCHANGED <<inputs, sink, pc, workers, bw, ret, blk, par>>

\* wg.Wait() returns when every worker is done; the rectangle is moved to
\* the origin, and part_000 has clamped Encode's own workers.
QJoin ==
    /\ pc = "wait"
    /\ \A i \in DOMAIN q.pos : q.pos[i] = (q.ranges[i][2] - q.ranges[i][1]) * m.dx
    /\ pm' = [pm EXCEPT !.min = <<0, 0>>]
    /\ workers' = IF variant = "gifp" THEN effectiveWorkers(m.dy, workers) ELSE workers
    /\ pc' = "encodeGIF"
    /\ UNCHANGED <<inputs, sink, bw, ret, blk, par, q>>

NextQuant == EncodeBegin \/ QStart \/ QStep \/ QJoin

SpecQuant == InitQuant /\ [][NextQuant]_vars

\* The level of a 16-bit channel: the table at its high 8 bits.
Level(v) == FastGifLut[v \div 256]

\* The index of the pixel at column x, row y of the image, counted from
\* its top left corner.
IndexOf(x, y) ==
    LET c == m.at[<<m.min[1] + x, m.min[2] + y>>]
    IN  36 * Level(c[1]) + 6 * Level(c[2]) + Level(c[3])

Joined == q.pc = "run" /\ pc = "encodeGIF"

\* C8: after the join the index buffer holds, for every pixel (x, y),
\* 36*level(R) + 6*level(G) + level(B), whatever the worker count and
\* the order of the workers' steps.
C8_Quantization ==
    Joined =>
        /\ Len(pm.Pix) = m.dx * m.dy
        /\ \A x \in 0..(m.dx - 1), y \in 0..(m.dy - 1) :
              pm.Pix[y * m.dx + x + 1] = IndexOf(x, y)

\* Two workers on three rows of a generic image away from the origin.
C8_Witness ==
    /\ Joined
    /\ Len(q.ranges) = 2 /\ m.dy = 3 /\ m.dx = 2
    /\ m.kind = "generic" /\ m.min # <<0, 0>>
    /\ pm.Pix[6] = 36 * 5 + 6 * 5 + 0

\* ------------------------------------------------------------------------
\* Encode on an image of one pixel whose colour has 8-bit channels, up to
\* the end of the quantizer.

\* The largest value of an 8-bit channel.
MaxChannel == 255

\* color.RGBA.RGBA(): the 16-bit channel of an 8-bit channel v of an
\* opaque colour.
channel16(v) == v * 256 + v

\* One channel runs over every 8-bit value while the other two take a low,
\* a middle and a high value; and the colours of palette.WebSafe.
LutChannels ==
    LET few == {0, 128, MaxChannel}
        all == 0..MaxChannel
    IN  (all \X few \X few) \cup (few \X all \X few) \cup (few \X few \X all)
            \cup {WebSafe[i] : i \in 1..WebSafeLen}

LutColors == {<<channel16(c[1]), channel16(c[2]), channel16(c[3])>> : c \in LutChannels}

InitLut ==
    /\ variant \in Variants
    /\ numCPU = 1
    /\ palette = WebSafe
    /\ \E k \in {"RGBA64", "generic"} : m \in Images(k, 0, 0, 1, 1, LutColors)
    /\ o = [nil |-> TRUE, Workers |-> 0]
    /\ Entry(0)

NextLut == EncodeBegin \/ MapColors

SpecLut == InitLut /\ [][NextLut]_vars

\* The quantizer has run.
Mapped == pc = "encodeGIF"

\* C11: every entry of the level table lies in 0..5, and so every index
\* the quantizer stores lies in 0..215.
C11_IndexRange ==
    /\ \A v \in 0..MaxChannel : FastGifLut[v] >= 0 /\ FastGifLut[v] <= 5
    /\ Mapped => \A i \in 1..Len(pm.Pix) : pm.Pix[i] >= 0 /\ pm.Pix[i] <= 215

\* A white pixel has the largest index.
C11_Witness ==
    /\ Mapped
    /\ m.at[<<0, 0>>] = <<65535, 65535, 65535>>
    /\ pm.Pix = <<215>>

\* C12: a pixel that has the colour of palette entry i = 36r + 6g + b,
\* channels 51r, 51g, 51b, is given the index i.
C12_Idempotent ==
    Mapped =>
        \A r \in 0..5, g \in 0..5, b \in 0..5 :
            m.at[<<0, 0>>] = <<channel16(51 * r), channel16(51 * g), channel16(51 * b)>>
                => pm.Pix[1] = 36 * r + 6 * g + b

\* The colour (153, 102, 204) of entry 124.
C12_Witness ==
    /\ Mapped
    /\ m.at[<<0, 0>>] = <<channel16(153), channel16(102), channel16(204)>>
    /\ WebSafe[124 + 1] = <<153, 102, 204>>
    /\ pm.Pix = <<124>>

\* ------------------------------------------------------------------------
\* The copying workers of writeLZWData, a row at a step.  While they run
\* par is [pc |-> "copy", ranges, pos, imageData]: worker i has copied the
\* first pos[i] rows of ranges[i] into imageData.

\* writeLZWData without the parallel path, up to the start of the copying
\* workers; dy / workers panics when workers is 0.
CopyStart ==
    /\ pc = "writeLZWData"
    /\ ~useParallel(variant, pm.dy, workers)
    /\ IF workers = 0
       THEN /\ pc' = "done"
            /\ ret' = "panic: integer divide by zero"
            /\ par' = par
       ELSE /\ \E ranges \in {rowRanges(pm.dy, workers)} :
                  par' = [pc |-> "copy", ranges |-> ranges,
                          pos |-> [i \in 1..Len(ranges) |-> 0],
                          imageData |-> [c \in 1..(pm.dx * pm.dy) |-> 0]]
            /\ pc' = "copyWait"
            /\ ret' = ret
    /\ UNCHANGED <<inputs, sink, workers, pm, bw, blk, q>>

\* One pass of the loop of a copying worker: row y of pm.Pix into
\* imageData.
CopyRow ==
    /\ pc = "copyWait"
    /\ \E i \in DOMAIN par.pos :
          /\ par.pos[i] < par.ranges[i][2] - par.ranges[i][1]
          /\ \E y \in {par.ranges[i][1] + par.pos[i]} :
                par' = [par EXCEPT
                           !.pos[i] = @ + 1,
                           !.imageData = [c \in DOMAIN @ |->
                                             IF (c - 1) \div pm.dx = y THEN pm.Pix[c] ELSE @[c]]]
    /\ UNCHANGED <<inputs, sink, pc, workers, pm, bw, ret, blk, q>>

\* wg.Wait() returns; imageData is compressed and framed into w.
CopyJoin ==
    /\ pc = "copyWait"
    /\ \A i \in DOMAIN par.pos : par.pos[i] = par.ranges[i][2] - par.ranges[i][1]
    /\ \E r \in {compressTo(bw, pm, litWidthOf(Len(pm.Palette)), par.imageData)} :
          /\ bw' = r.w
          /\ sink' = r.w.wr
          /\ IF r.err # "nil"
             THEN pc' = "done" /\ ret' = r.err
             ELSE pc' = "trailer" /\ ret' = ret
    /\ UNCHANGED <<inputs, workers, pm, blk, par, q>>

\* ------------------------------------------------------------------------
\* Encode with every stage run goroutine by goroutine, on images of one
\* column and up to MaxRows rows.

MaxRows == 12

\* Rows of black and red in turn.
RowImages ==
    {[kind |-> "RGBA64", min |-> <<0, 0>>, dx |-> 1, dy |-> h,
      at |-> [p \in Points(0, 0, 1, h) |->
                 IF p[2] % 2 = 0 THEN <<0, 0, 0>> ELSE <<65535, 0, 0>>],
      opaque |-> FALSE, zlen |-> 0] : h \in 0..MaxRows}

InitStages ==
    /\ variant \in Variants
    /\ numCPU \in 1..MaxCPU
    /\ palette = WebSafe
    /\ m \in RowImages
    /\ o \in Options
    /\ Entry(0)

NextStages ==
    \/ EncodeBegin \/ QStart \/ QStep \/ QJoin \/ EncodeGIF
    \/ CopyStart \/ CopyRow \/ CopyJoin
    \/ ParStart \/ WorkerSend \/ WorkerExit \/ Closer
    \/ CollectRecv \/ CollectEnd \/ WriteChunk \/ Trailer

SpecStages == InitStages /\ [][NextStages]_vars

\* ------------------------------------------------------------------------
\* The row ranges (SpecStages).

\* The worker count Encode starts from.
Requested == workerCount(o, numCPU)

\* The ranges handed out so far: by the quantizer, and by the compressor
\* on either of its paths.
AllRanges ==
    (IF q.pc = "run" THEN {q.ranges} ELSE {})
        \cup (IF par.pc \in {"copy", "run"} THEN {par.ranges} ELSE {})

Rows(r) == r[2] - r[1]

\* C13: for a height of 1 or more the row ranges of the quantizer and of
\* both compressor paths are contiguous, lie within 0..H-1, and every row
\* is in exactly one of them.
C13_StripsPartition ==
    m.dy >= 1 =>
        \A rs \in AllRanges :
            /\ Len(rs) >= 1
            /\ rs[1][1] = 0 /\ rs[Len(rs)][2] = m.dy
            /\ \A i \in 1..Len(rs) : 0 <= rs[i][1] /\ rs[i][1] <= rs[i][2] /\ rs[i][2] <= m.dy
            /\ \A i \in 1..(Len(rs) - 1) : rs[i][2] = rs[i + 1][1]
            /\ \A y \in 0..(m.dy - 1) :
                  Cardinality({i \in 1..Len(rs) : rs[i][1] <= y /\ y < rs[i][2]}) = 1

\* Nine rows and two workers, in the quantizer and in the parallel
\* compressor.
C13_Witness ==
    /\ m.dy = 9 /\ Requested = 2
    /\ q.pc = "run" /\ q.ranges = <<<<0, 4>>, <<4, 9>>>>
    /\ par.pc = "run" /\ par.ranges = <<<<0, 4>>, <<4, 9>>>>

Floor(h, n) == h \div n

Ceil(h, n) == (h + n - 1) \div n

\* C14 as it is stated: with H >= N >= 1, every range but the last has
\* ceil(H/N) rows.
C14_StripHeightCeil ==
    (m.dy >= Requested /\ Requested >= 1) =>
        \A rs \in AllRanges :
            \A i \in 1..(Len(rs) - 1) : Rows(rs[i]) = Ceil(m.dy, Len(rs))

\* C14, amended: with H >= N >= 1 there are N ranges, every range but the
\* last has floor(H/N) rows, and the last has the rows that remain,
\* H - (N-1)*floor(H/N).
C14_StripHeightFloor ==
    (m.dy >= Requested /\ Requested >= 1) =>
        \A rs \in AllRanges :
            /\ Len(rs) = Requested
            /\ \A i \in 1..(Len(rs) - 1) : Rows(rs[i]) = Floor(m.dy, Requested)
            /\ Rows(rs[Len(rs)]) = m.dy - (Requested - 1) * Floor(m.dy, Requested)

\* Eleven rows and three workers: 3, 3 and 5 rows, where ceil(11/3) is 4.
C14_Witness ==
    /\ m.dy = 11 /\ Requested = 3
    /\ q.pc = "run" /\ q.ranges = <<<<0, 3>>, <<3, 6>>, <<6, 11>>>>
    /\ par.pc = "copy" /\ par.ranges = q.ranges

\* C15: with 1 <= H < N the workers become H, of one row each; and for
\* every H >= 1 each worker that is started has at least one row.
C15_NoIdleWorker ==
    m.dy >= 1 =>
        \A rs \in AllRanges :
            /\ \A i \in 1..Len(rs) : Rows(rs[i]) >= 1
            /\ m.dy < Requested =>
                  (Len(rs) = m.dy /\ \A i \in 1..Len(rs) : Rows(rs[i]) = 1)

\* Two rows and three workers asked for.
C15_Witness ==
    /\ m.dy = 2 /\ Requested = 3
    /\ q.pc = "run" /\ q.ranges = <<<<0, 1>>, <<1, 2>>>>
    /\ par.pc = "copy" /\ par.ranges = q.ranges

\* ------------------------------------------------------------------------
\* The stores of the quantizer (SpecQuant).

\* The row, counted from the top of the image, of cell c of pm.Pix.
RowOf(c) == (c - 1) \div m.dx

\* C16: in every interleaving no cell of the index buffer is stored into
\* twice, a store into a cell is made by the worker whose row range holds
\* the cell's row and by no other, and when the join completes every cell
\* has been stored into once.
C16_NoWriteConflict ==
    q.pc = "run" =>
        /\ \A c \in DOMAIN q.writes :
              /\ q.writes[c] <= 1
              /\ Cardinality(q.by[c]) <= 1
              /\ \A i \in q.by[c] : q.ranges[i][1] <= RowOf(c) /\ RowOf(c) < q.ranges[i][2]
        /\ \A i \in DOMAIN q.ranges, j \in DOMAIN q.ranges :
              i # j => \A c \in DOMAIN q.writes :
                          ~(/\ q.ranges[i][1] <= RowOf(c) /\ RowOf(c) < q.ranges[i][2]
                            /\ q.ranges[j][1] <= RowOf(c) /\ RowOf(c) < q.ranges[j][2])
        /\ pc = "encodeGIF" => \A c \in DOMAIN q.writes : q.writes[c] = 1

\* Three workers have mapped the eight cells of four rows.
C16_Witness ==
    /\ Joined
    /\ Len(q.ranges) = 3 /\ m.dy = 4 /\ m.dx = 2
    /\ q.by = <<{1}, {1}, {2}, {2}, {3}, {3}, {3}, {3}>>

\* ------------------------------------------------------------------------
\* The joins of the stages.

QuantizerDone ==
    \A i \in DOMAIN q.pos : q.pos[i] = (q.ranges[i][2] - q.ranges[i][1]) * m.dx

CopyDone ==
    \A i \in DOMAIN par.pos : par.pos[i] = par.ranges[i][2] - par.ranges[i][1]

CompressorDone == \A i \in DOMAIN par.wpc : par.wpc[i] = "exit"

\* C17: the quantizer, the strip copy and the parallel compressor are
\* left only when all of their workers have finished: once the call has
\* gone past a stage, with or without an error, no worker of that stage
\* is still running.
C17_JoinBarrier ==
    /\ (q.pc = "run" /\ pc # "wait") => QuantizerDone
    /\ (par.pc = "copy" /\ pc # "copyWait") => CopyDone
    /\ (par.pc = "run" /\ pc \notin {"collect", "write"}) => CompressorDone

\* ------------------------------------------------------------------------
\* The bytes in the blocks (SpecBW).

\* The data bytes of the first k blocks, in order.
RECURSIVE BlockData(_)
BlockData(k) == IF k = 0 THEN <<>> ELSE BlockData(k - 1) \o Tail(Blocks[k])

\* C18: the data bytes of the blocks emitted, followed before close by
\* the bytes still buffered, are the bytes written, in order; after close
\* nothing is missing from the blocks; and every Write returns len(p) and
\* no error.
C18_ContentPreserved ==
    blk.pc # "none" =>
        /\ blk.pc = "open" => BlockData(Len(Blocks)) \o blk.b.buf = blk.in
        /\ blk.pc = "closed" => BlockData(Len(Blocks)) = blk.in
        /\ blk.n = blk.len
        /\ blk.err = "nil"

\* Writes of 256, 0 and 511 bytes in some order, then close: three full
\* blocks and one of two bytes.
C18_Witness ==
    /\ blk.pc = "closed" /\ blk.calls = 3
    /\ Len(blk.in) = 767 /\ Len(Blocks) = 4
    /\ Blocks[4] = <<2, blk.in[766], blk.in[767]>>
    /\ blk.len = 511 /\ blk.n = 511

\* ------------------------------------------------------------------------
\* Images without rows (Spec).

\* C19: for an image of height 0 the worker count that reaches the
\* division dy / workers of writeLZWData is at least 1, and Encode does
\* not end in a division by zero.
C19_NoDivideByZero ==
    m.dy = 0 =>
        /\ pc = "writeLZWData" => workers >= 1
        /\ ret # "panic: integer divide by zero"

\* ------------------------------------------------------------------------
\* Progress of the parallel compressor: a goroutine that can take a step
\* eventually takes one.

\* Some worker has yet to send its result.
SendPending == par.pc = "run" /\ \E i \in DOMAIN par.wpc : par.wpc[i] = "run"

\* What enables WorkerSend.
CanSend == SendPending /\ Len(par.results) < par.cap

\* WF_vars(WorkerSend), with its ENABLED written out as CanSend.
FairSend == []<>(~CanSend) \/ []<><<WorkerSend>>_vars

FairPar ==
    /\ FairSend
    /\ WF_vars(WorkerExit) /\ WF_vars(Closer)
    /\ WF_vars(CollectRecv) /\ WF_vars(CollectEnd) /\ WF_vars(WriteChunk)
    /\ WF_vars(Trailer)

SpecParLive == InitPar /\ [][NextPar]_vars /\ FairPar

\* C20: a worker that has yet to send always finds room in the channel;
\* once the workers are started every one of them terminates and the
\* channel is closed; and the call returns: also when the collecting loop
\* has stopped at an error.
C20_NoDeadlock ==
    /\ [](SendPending => Len(par.results) < par.cap)
    /\ (par.pc = "run") ~> (par.pc = "run" /\ CompressorDone /\ par.closed)
    /\ (par.pc = "run") ~> (pc = "done")

\* The call returned at the error of strip 0; the other two workers have
\* sent and left since, their results stay in the closed channel.
C20_Witness ==
    /\ par.pc = "run" /\ pc = "done"
    /\ ret = "lzw: input byte too large for the litWidth"
    /\ par.order = <<0>>
    /\ Len(par.wpc) = 3 /\ CompressorDone /\ par.closed
    /\ Len(par.results) = 2

====
